---------------------------- MODULE Spec2Model ----------------------------
(***************************************************************************)
(* A model of the interaction and highlight layer of rturn (src/main.rs).  *)
(*                                                                         *)
(* One frame is: the systems of the Update stage, run in any order the     *)
(* labels and .after() constraints of main() allow; the application of the *)
(* command buffers at the end of the stage; and render_grid_objects and    *)
(* then animate_selected of the PostUpdate stage, which ends the frame.    *)
(* Commands (insert / remove of                                            *)
(* the SelectedUnit marker, spawn / despawn of GridHighlight entities) are *)
(* queued by the systems and take effect only when the buffers are         *)
(* applied; writes through &mut (Hoverable, Clickable, GridPosition,       *)
(* LastClick) take effect at once.                                         *)
(*                                                                         *)
(* Entities are numbered in spawn order: the grid tiles first (x outer, y  *)
(* inner, as setup_grid_tiles spawns them), then the units.  A query is    *)
(* iterated in that order.                                                 *)
(*                                                                         *)
(* Left out: move_camera (the camera offset stays (0, 0) and the scale 2), *)
(* the sprite index chosen by render_grid_tiles, handle_hover_sprite_change *)
(* and the animations, and animate_idle.  A timer is modelled by its       *)
(* outcome: in a frame it has just finished or it has not.                 *)
(***************************************************************************)
EXTENDS Integers, Sequences, FiniteSets, TLC

(***************************************************************************)
(* Bounds of the model.                                                    *)
(***************************************************************************)
GridWidth == 3
GridHeight == 1
NumUnits == 3
\* The last frame of the selected animation (7 in spawn_units).
SelectedAnimationEnd == 1
\* The largest coordinate of the positions GridPosition::dist is applied to.
MaxCoord == 4

(***************************************************************************)
(* Program constants.                                                      *)
(***************************************************************************)
TileSize == 64
TileScale == 2
TileSpriteSize == 32
UnitSpriteSize == 128
UnitZ == 10
TileZ == 0

NoEntity == -1

NumTiles == GridWidth * GridHeight
Tiles == 0 .. (NumTiles - 1)
Units == NumTiles .. (NumTiles + NumUnits - 1)
Entities == Tiles \cup Units
Cells == (0 .. (GridWidth - 1)) \X (0 .. (GridHeight - 1))

\* setup_grid_tiles: for x in 0..width { for y in 0..height { spawn tile (x, y) } }
TilePos(t) == << t \div GridHeight, t % GridHeight >>

\* GridPosition::dist
Abs(i) == IF i < 0 THEN -i ELSE i

\* Mutant: the differences are added with their signs.
dist_Signed(a, b) == (a[1] - b[1]) + (a[2] - b[2])

dist(a, b) == Abs(a[1] - b[1]) + Abs(a[2] - b[2])

\* The units spawned: unit k (k = 1 .. NumUnits) starts on the k-th cell; every
\* unit but the last carries MovementRange { range: k }, the last carries none.
UnitIndex(u) == u - NumTiles + 1

HasMovementRange(u) == UnitIndex(u) < NumUnits

MovementRangeOf(u) == UnitIndex(u)

InitialUnitPos(u) == TilePos((UnitIndex(u) - 1) % NumTiles)

\* MouseInteractible.z
ZOf(e) == IF e \in Units THEN UnitZ ELSE TileZ

SpriteSizeOf(e) == IF e \in Units THEN UnitSpriteSize ELSE TileSpriteSize

Kinds == {"PlayerUnitMovement", "PlayerHover", "PlayerUnitSelected"}

Systems == {"handle_mouse_interactions", "handle_grid_clicks", "handle_unit_selection",
            "handle_player_unit_selection_grid_highlights",
            "handle_player_unit_selection_movement_highlights",
            "handle_hover_grid_highlights"}

\* main(): the systems a system is declared to run .after()
After(s) ==
    CASE s = "handle_mouse_interactions" -> {}
      [] s = "handle_grid_clicks" -> {}
      [] s = "handle_unit_selection" -> {"handle_mouse_interactions", "handle_grid_clicks"}
      [] s = "handle_player_unit_selection_grid_highlights" -> {"handle_unit_selection"}
      [] s = "handle_player_unit_selection_movement_highlights" -> {"handle_unit_selection"}
      [] s = "handle_hover_grid_highlights" -> {"handle_mouse_interactions"}

VARIABLES
    pos,            \* GridPosition of each unit
    selected,       \* the entities carrying the SelectedUnit marker
    hovered,        \* Hoverable.hovered of each entity
    clicked,        \* Clickable.clicked of each entity
    bbox,           \* MouseInteractible.bounding_box of each entity
    last_click,     \* LastClick.was_handled
    highlights,     \* GridHighlight entities: how many of each kind at each cell
    depth,          \* Transform.translation.z of each entity
    commands,       \* the command buffer of each system
    stage,          \* "Update", "PostUpdate", or "Animate": PostUpdate after
                    \* render_grid_objects
    done,           \* the Update systems that have run in this frame
    cursor,         \* what handle_mouse_interactions read in this frame
    highest,        \* highest_z_clicked of this frame's hit test
    start,          \* selected, pos and highlights as they were when the frame began
    selected_animation, \* SelectedAnimation.animation of each unit that has one
    dist_call       \* a call of GridPosition::dist: its arguments and its result

vars == << pos, selected, hovered, clicked, bbox, last_click, highlights, depth,
           commands, stage, done, cursor, highest, start, selected_animation,
           dist_call >>

(***************************************************************************)
(* Geometry: render_grid_objects with camera_offset (0, 0).                *)
(***************************************************************************)
\* center = camera_offset + tile_size * tile_scale * pos - pos * tile_size * tile_scale / 16
Center(c) ==
    << TileSize * TileScale * c[1] - (c[1] * TileSize * TileScale) \div 16,
       TileSize * TileScale * c[2] - (c[2] * TileSize * TileScale) \div 16 >>

\* x_scale = tile_size / sprite_size.x * tile_scale (4 for a tile, 1 for a unit)
ScaleOf(e) == (TileSize * TileScale) \div SpriteSizeOf(e)

BoundingBox(e, c) ==
    [ top    |-> Center(c)[2] + (TileSize \div 4) * ScaleOf(e) - 1,
      bottom |-> Center(c)[2] - (TileSize \div 4) * ScaleOf(e) - 1,
      right  |-> Center(c)[1] + (TileSize \div 4) * ScaleOf(e) - 1,
      left   |-> Center(c)[1] - (TileSize \div 4) * ScaleOf(e) - 1 ]

DefaultRect == [top |-> 0, bottom |-> 0, right |-> 0, left |-> 0]

\* Mutant: the edges of the box count as inside.
contains_point_Closed(r, p) ==
    p[1] <= r.right /\ p[1] >= r.left /\ p[2] >= r.bottom /\ p[2] <= r.top

\* ContainsPoint for Rect<f32>
contains_point(r, p) ==
    p[1] < r.right /\ p[1] > r.left /\ p[2] > r.bottom /\ p[2] < r.top

PosOf(e, ps) == IF e \in Units THEN ps[e] ELSE TilePos(e)

(***************************************************************************)
(* The inputs of a frame: the cursor (already relative to the window       *)
(* centre) or its absence, and whether the left button was just pressed.   *)
(* The sampled positions are, for every cell, its centre (inside the tile  *)
(* and inside a unit standing there), the point on the right edge of a     *)
(* unit's box there (inside the tile only), and the point in the strip     *)
(* where the tile's box overlaps the box of the tile to its right; and one *)
(* point on the left edge of the leftmost tiles (inside nothing).          *)
(***************************************************************************)
CursorPositions ==
    {Center(c) : c \in Cells}
    \cup {<< Center(c)[1] + (TileSize \div 4) - 1, Center(c)[2] >> : c \in Cells}
    \cup {<< Center(c)[1] + TileSize - 5, Center(c)[2] >> :
              c \in {d \in Cells : d[1] + 1 < GridWidth}}
    \cup {<< 0 - TileSize - 1, 0 >>}

NoCursor == [present |-> FALSE, p |-> << 0, 0 >>, click |-> FALSE]

CursorInputs ==
    {NoCursor} \cup
    {[present |-> TRUE, p |-> p, click |-> k] : p \in CursorPositions, k \in BOOLEAN}

Unread == [present |-> FALSE, p |-> << 0, 0 >>, click |-> TRUE]

(***************************************************************************)
(* Commands.                                                               *)
(***************************************************************************)
InsertSelected(e) == [op |-> "insert", e |-> e, kind |-> "", cell |-> << 0, 0 >>]

RemoveSelected(e) == [op |-> "remove", e |-> e, kind |-> "", cell |-> << 0, 0 >>]

Spawn(k, c) == [op |-> "spawn", e |-> NoEntity, kind |-> k, cell |-> c]

Despawn(k, c) == [op |-> "despawn", e |-> NoEntity, kind |-> k, cell |-> c]

Repeat(x, n) == [i \in 1 .. n |-> x]

\* One world change per command, as the buffers are applied at the end of the stage.
ApplyCommand(w, c) ==
    CASE c.op = "insert" -> [w EXCEPT !.selected = @ \cup {c.e}]
      [] c.op = "remove" -> [w EXCEPT !.selected = @ \ {c.e}]
      [] c.op = "spawn" -> [w EXCEPT !.highlights[c.kind][c.cell] = @ + 1]
      [] c.op = "despawn" ->
            [w EXCEPT !.highlights[c.kind][c.cell] = IF @ > 0 THEN @ - 1 ELSE 0]

RECURSIVE ApplyAll(_, _)
ApplyAll(w, cs) ==
    IF cs = << >> THEN w ELSE ApplyAll(ApplyCommand(w, Head(cs)), Tail(cs))

\* The buffers are applied system by system, in the stage's sorted order.
ApplyOrder ==
    << "handle_mouse_interactions", "handle_grid_clicks", "handle_unit_selection",
       "handle_player_unit_selection_grid_highlights",
       "handle_player_unit_selection_movement_highlights",
       "handle_hover_grid_highlights" >>

RECURSIVE Concat(_, _)
Concat(bufs, i) ==
    IF i > Len(ApplyOrder) THEN << >> ELSE bufs[ApplyOrder[i]] \o Concat(bufs, i + 1)


(***************************************************************************)
(* handle_mouse_interactions                                               *)
(***************************************************************************)
\* The loop over q.iter_mut() that keeps highest_z_clicked: entity e replaces the
\* best so far only when its z is strictly greater.
RECURSIVE HighestZFrom(_, _, _, _)
HighestZFrom(e, best, boxes, p) ==
    IF e \notin Entities THEN best
    ELSE IF contains_point(boxes[e], p) /\ (best = NoEntity \/ ZOf(e) > ZOf(best))
         THEN HighestZFrom(e + 1, e, boxes, p)
         ELSE HighestZFrom(e + 1, best, boxes, p)

highest_z_clicked(cur, boxes) ==
    IF cur.present /\ cur.click THEN HighestZFrom(0, NoEntity, boxes, cur.p) ELSE NoEntity

HoveredAfter(cur, boxes, h) ==
    IF ~cur.present THEN h
    ELSE [e \in Entities |->
            IF contains_point(boxes[e], cur.p)
            THEN IF cur.click
                 THEN IF e = highest_z_clicked(cur, boxes) THEN FALSE ELSE h[e]
                 ELSE TRUE
            ELSE FALSE]

\* Mutant: the clicked flag of an entity outside the cursor is left as it was.
ClickedAfter_KeepOutside(cur, boxes, c) ==
    IF ~cur.present THEN c
    ELSE [e \in Entities |->
            IF contains_point(boxes[e], cur.p)
            THEN IF cur.click
                 THEN IF e = highest_z_clicked(cur, boxes) THEN TRUE ELSE c[e]
                 ELSE FALSE
            ELSE c[e]]

ClickedAfter(cur, boxes, c) ==
    IF ~cur.present THEN c
    ELSE [e \in Entities |->
            IF contains_point(boxes[e], cur.p)
            THEN IF cur.click
                 THEN IF e = highest_z_clicked(cur, boxes) THEN TRUE ELSE c[e]
                 ELSE FALSE
            ELSE FALSE]

\* Mutant: was_handled is written in every frame with a pointer, click edge or not.
WasHandledAfter_EveryFrame(cur, boxes, w) ==
    IF cur.present THEN highest_z_clicked(cur, boxes) # NoEntity ELSE w

WasHandledAfter(cur, boxes, w) ==
    IF cur.present /\ cur.click THEN highest_z_clicked(cur, boxes) # NoEntity ELSE w

CanRun(s) == stage = "Update" /\ s \notin done /\ After(s) \subseteq done

handle_mouse_interactions ==
    /\ CanRun("handle_mouse_interactions")
    /\ \E cur \in CursorInputs :
          /\ cursor' = cur
          /\ highest' = highest_z_clicked(cur, bbox)
          /\ hovered' = HoveredAfter(cur, bbox, hovered)
          /\ clicked' = ClickedAfter(cur, bbox, clicked)
          /\ last_click' = WasHandledAfter(cur, bbox, last_click)
    /\ done' = done \cup {"handle_mouse_interactions"}
    /\ UNCHANGED << selected_animation, dist_call >>
    /\ UNCHANGED << pos, selected, bbox, highlights, depth, commands, stage, start >>

(***************************************************************************)
(* handle_grid_clicks                                                      *)
(***************************************************************************)
\* The first entity of S, in iteration order, that satisfies the flags f.
FirstWhere(S, f) ==
    IF \E e \in S : f[e]
    THEN CHOOSE e \in S : f[e] /\ \A o \in S : f[o] => e <= o
    ELSE NoEntity

\* Query::single(): Ok only when exactly one entity matches.
Single(sel) == IF Cardinality(sel) = 1 THEN CHOOSE u \in sel : TRUE ELSE NoEntity

MovementHighlightPositions(hl) == {c \in Cells : hl["PlayerUnitMovement"][c] > 0}

GridClickPos(sel, clk, hl, ps) ==
    LET u == Single(sel)
        t == FirstWhere(Tiles, clk)
    IN  IF u # NoEntity /\ t # NoEntity /\ TilePos(t) \in MovementHighlightPositions(hl)
        THEN [ps EXCEPT ![u] = TilePos(t)]
        ELSE ps

GridClickCommands(sel, clk) ==
    LET u == Single(sel)
        t == FirstWhere(Tiles, clk)
    IN  IF u # NoEntity /\ t # NoEntity THEN << RemoveSelected(u) >> ELSE << >>

handle_grid_clicks ==
    /\ CanRun("handle_grid_clicks")
    /\ pos' = GridClickPos(selected, clicked, highlights, pos)
    /\ commands' = [commands EXCEPT !["handle_grid_clicks"] =
                        GridClickCommands(selected, clicked)]
    /\ done' = done \cup {"handle_grid_clicks"}
    /\ UNCHANGED << selected_animation, dist_call >>
    /\ UNCHANGED << selected, hovered, clicked, bbox, last_click, highlights, depth,
                    stage, cursor, highest, start >>

(***************************************************************************)
(* AnimationRange and the SelectedAnimation of the units                   *)
(***************************************************************************)
from_start_end(start_index, end_index) ==
    [start_index |-> start_index, end_index |-> end_index, current_index |-> start_index]

reset(a) == [a EXCEPT !.current_index = a.start_index]

advance(a, should_loop) ==
    IF a.current_index = a.end_index
    THEN IF should_loop THEN reset(a) ELSE a
    ELSE [a EXCEPT !.current_index = @ + 1]

\* The first unit carries a SelectedAnimation (from_start_end(0, end), not looping);
\* for the others Option<&mut SelectedAnimation> is None.
HasSelectedAnimation(u) == UnitIndex(u) = 1

AnimatedUnits == {u \in Units : HasSelectedAnimation(u)}

InitialSelectedAnimation == [u \in AnimatedUnits |-> from_start_end(0, SelectedAnimationEnd)]

(***************************************************************************)
(* handle_unit_selection                                                   *)
(***************************************************************************)
RECURSIVE RemoveEach(_, _)
RemoveEach(e, sel) ==
    IF e \notin Entities THEN << >>
    ELSE (IF e \in sel THEN << RemoveSelected(e) >> ELSE << >>) \o RemoveEach(e + 1, sel)

\* Mutant: the newly clicked unit is marked without evicting the selected ones.
UnitSelectionCommands_NoEvict(sel, clk, was_handled) ==
    LET c == FirstWhere(Units, clk)
    IN  (IF c # NoEntity THEN << InsertSelected(c) >> ELSE << >>)
        \o (IF ~was_handled THEN RemoveEach(0, sel) ELSE << >>)

\* Mutant: a click on a unit is ignored while another unit is selected.
UnitSelectionCommands_KeepCurrent(sel, clk, was_handled) ==
    LET c == FirstWhere(Units, clk)
        remove_all_currently_selected == (c # NoEntity /\ sel = {}) \/ ~was_handled
    IN  (IF c # NoEntity /\ sel = {} THEN << InsertSelected(c) >> ELSE << >>)
        \o (IF remove_all_currently_selected THEN RemoveEach(0, sel) ELSE << >>)

\* Mutant: LastClick.was_handled is not consulted.
UnitSelectionCommands_IgnoreLastClick(sel, clk, was_handled) ==
    LET c == FirstWhere(Units, clk)
        remove_all_currently_selected == c # NoEntity
    IN  (IF c # NoEntity THEN << InsertSelected(c) >> ELSE << >>)
        \o (IF remove_all_currently_selected THEN RemoveEach(0, sel) ELSE << >>)

UnitSelectionCommands(sel, clk, was_handled) ==
    LET c == FirstWhere(Units, clk)
        remove_all_currently_selected == c # NoEntity \/ ~was_handled
    IN  (IF c # NoEntity THEN << InsertSelected(c) >> ELSE << >>)
        \o (IF remove_all_currently_selected THEN RemoveEach(0, sel) ELSE << >>)

\* selected_animation.as_mut().map(|s| s.animation).flatten() yields a copy of the
\* AnimationRange (it is Copy): the assignment current_index = start_index is made
\* on the copy, reset_copy, which is dropped; the stored animation is as it was.
UnitSelectionAnimation(clk, anim) ==
    LET c == FirstWhere(Units, clk)
        reset_copy == IF c \in AnimatedUnits THEN reset(anim[c]) ELSE << >>
    IN  anim

handle_unit_selection ==
    /\ CanRun("handle_unit_selection")
    /\ selected_animation' = UnitSelectionAnimation(clicked, selected_animation)
    /\ commands' = [commands EXCEPT !["handle_unit_selection"] =
                        UnitSelectionCommands(selected, clicked, last_click)]
    /\ done' = done \cup {"handle_unit_selection"}
    /\ UNCHANGED dist_call
    /\ UNCHANGED << pos, selected, hovered, clicked, bbox, last_click, highlights, depth,
                    stage, cursor, highest, start >>

(***************************************************************************)
(* The three highlight passes                                              *)
(***************************************************************************)
\* A despawn for every existing highlight of the kind whose cell is in drop.
RECURSIVE DespawnSeq(_, _, _, _)
DespawnSeq(t, kind, drop, hl) ==
    IF t \notin Tiles THEN << >>
    ELSE (IF TilePos(t) \in drop
          THEN Repeat(Despawn(kind, TilePos(t)), hl[kind][TilePos(t)])
          ELSE << >>) \o DespawnSeq(t + 1, kind, drop, hl)

\* A spawn for every cell of add.
RECURSIVE SpawnSeq(_, _, _)
SpawnSeq(t, kind, add) ==
    IF t \notin Tiles THEN << >>
    ELSE (IF TilePos(t) \in add THEN << Spawn(kind, TilePos(t)) >> ELSE << >>)
         \o SpawnSeq(t + 1, kind, add)

\* Mutant: a highlight is spawned at every needed cell, whether it has one or not.
Reconcile_AlwaysSpawn(kind, need, hl) ==
    DespawnSeq(0, kind, Cells \ need, hl) \o SpawnSeq(0, kind, need)

\* Despawn the highlights whose cell is not needed, spawn one at every needed cell
\* that has none.
Reconcile(kind, need, hl) ==
    DespawnSeq(0, kind, Cells \ need, hl)
    \o SpawnSeq(0, kind, {c \in need : hl[kind][c] = 0})

\* Mutant: the highlight of the cell the selected unit has left is not despawned.
SelectionHighlightCommands_KeepOld(sel, ps, hl) ==
    LET u == Single(sel)
    IN  IF u # NoEntity
        THEN IF ps[u] \in Cells /\ hl["PlayerUnitSelected"][ps[u]] = 0
             THEN << Spawn("PlayerUnitSelected", ps[u]) >>
             ELSE << >>
        ELSE DespawnSeq(0, "PlayerUnitSelected", Cells, hl)

SelectionHighlightCommands(sel, ps, hl) ==
    LET u == Single(sel)
    IN  IF u # NoEntity
        THEN IF ps[u] \in Cells
             THEN DespawnSeq(0, "PlayerUnitSelected", Cells \ {ps[u]}, hl)
                  \o (IF hl["PlayerUnitSelected"][ps[u]] = 0
                      THEN << Spawn("PlayerUnitSelected", ps[u]) >> ELSE << >>)
             ELSE << >>
        ELSE DespawnSeq(0, "PlayerUnitSelected", Cells, hl)

handle_player_unit_selection_grid_highlights ==
    /\ CanRun("handle_player_unit_selection_grid_highlights")
    /\ commands' = [commands EXCEPT !["handle_player_unit_selection_grid_highlights"] =
                        SelectionHighlightCommands(selected, pos, highlights)]
    /\ done' = done \cup {"handle_player_unit_selection_grid_highlights"}
    /\ UNCHANGED << selected_animation, dist_call >>
    /\ UNCHANGED << pos, selected, hovered, clicked, bbox, last_click, highlights, depth,
                    stage, cursor, highest, start >>

\* The loop over player_unit_query: the first entity with a MovementRange whose
\* position equals the selected unit's position.
SelectedUnitMovement(p, ps) ==
    FirstWhere(Units, [e \in Units |-> HasMovementRange(e) /\ ps[e] = p])

TilesNeedHighlight(p, range) == {c \in Cells : dist(c, p) <= range /\ dist(c, p) > 0}

\* Mutant: with nothing selected the movement highlights are left alone.
MovementHighlightCommands_NoClear(sel, ps, hl) ==
    LET u == Single(sel)
    IN  IF u # NoEntity
        THEN LET m == SelectedUnitMovement(ps[u], ps)
             IN  IF m # NoEntity
                 THEN Reconcile("PlayerUnitMovement",
                                TilesNeedHighlight(ps[u], MovementRangeOf(m)), hl)
                 ELSE << >>
        ELSE << >>

MovementHighlightCommands(sel, ps, hl) ==
    LET u == Single(sel)
    IN  IF u # NoEntity
        THEN LET m == SelectedUnitMovement(ps[u], ps)
             IN  IF m # NoEntity
                 THEN Reconcile("PlayerUnitMovement",
                                TilesNeedHighlight(ps[u], MovementRangeOf(m)), hl)
                 ELSE << >>
        ELSE DespawnSeq(0, "PlayerUnitMovement", Cells, hl)

handle_player_unit_selection_movement_highlights ==
    /\ CanRun("handle_player_unit_selection_movement_highlights")
    /\ commands' = [commands EXCEPT !["handle_player_unit_selection_movement_highlights"] =
                        MovementHighlightCommands(selected, pos, highlights)]
    /\ done' = done \cup {"handle_player_unit_selection_movement_highlights"}
    /\ UNCHANGED << selected_animation, dist_call >>
    /\ UNCHANGED << pos, selected, hovered, clicked, bbox, last_click, highlights, depth,
                    stage, cursor, highest, start >>

HoveredTiles(hov) == {TilePos(t) : t \in {o \in Tiles : hov[o]}}

\* Mutant: every hover highlight is despawned and the needed ones are spawned anew.
HoverHighlightCommands_Rebuild(hov, hl) ==
    DespawnSeq(0, "PlayerHover", Cells, hl) \o SpawnSeq(0, "PlayerHover", HoveredTiles(hov))

\* Mutant: the hover highlights of the tiles no longer hovered are not despawned.
HoverHighlightCommands_NoDespawn(hov, hl) ==
    SpawnSeq(0, "PlayerHover", {c \in HoveredTiles(hov) : hl["PlayerHover"][c] = 0})

HoverHighlightCommands(hov, hl) == Reconcile("PlayerHover", HoveredTiles(hov), hl)

handle_hover_grid_highlights ==
    /\ CanRun("handle_hover_grid_highlights")
    /\ commands' = [commands EXCEPT !["handle_hover_grid_highlights"] =
                        HoverHighlightCommands(hovered, highlights)]
    /\ done' = done \cup {"handle_hover_grid_highlights"}
    /\ UNCHANGED << selected_animation, dist_call >>
    /\ UNCHANGED << pos, selected, hovered, clicked, bbox, last_click, highlights, depth,
                    stage, cursor, highest, start >>

(***************************************************************************)
(* The end of the Update stage: the command buffers are applied.           *)
(***************************************************************************)
NoCommands == [s \in Systems |-> << >>]

apply_buffers ==
    /\ stage = "Update"
    /\ done = Systems
    /\ LET w == ApplyAll([selected |-> selected, highlights |-> highlights],
                         Concat(commands, 1))
       IN  /\ selected' = w.selected
           /\ highlights' = w.highlights
    /\ commands' = NoCommands
    /\ stage' = "PostUpdate"
    /\ UNCHANGED << selected_animation, dist_call >>
    /\ UNCHANGED << pos, hovered, clicked, bbox, last_click, depth, done, cursor,
                    highest, start >>

(***************************************************************************)
(* render_grid_objects (PostUpdate)                                        *)
(***************************************************************************)
\* Option<&GridEntity>: GridEntity is a bundle, flattened into its GridPosition by
\* #[bundle] in PlayerUnit, so no entity carries a GridEntity component.
HasGridEntity(e) == FALSE

need_selected_z_level(hl) == {c \in Cells : hl["PlayerUnitSelected"][c] > 0}

need_movement_z_level(hl) ==
    {c \in Cells : \E k \in Kinds \ {"PlayerUnitSelected"} : hl[k][c] > 0}

RenderZ(e, ps, hl) ==
    IF HasGridEntity(e) THEN 10
    ELSE IF PosOf(e, ps) \in need_selected_z_level(hl) THEN 9
    ELSE IF PosOf(e, ps) \in need_movement_z_level(hl) THEN 5
    ELSE 1

FrameStart(sel, ps, hl) == [selected |-> sel, pos |-> ps, highlights |-> hl]

render_grid_objects ==
    /\ stage = "PostUpdate"
    /\ depth' = [e \in Entities |-> RenderZ(e, pos, highlights)]
    /\ bbox' = [e \in Entities |-> BoundingBox(e, PosOf(e, pos))]
    /\ stage' = "Animate"
    /\ done' = {}
    /\ cursor' = Unread
    /\ highest' = NoEntity
    /\ start' = FrameStart(selected, pos, highlights)
    /\ UNCHANGED << selected_animation, dist_call >>
    /\ UNCHANGED << pos, selected, hovered, clicked, last_click, highlights, commands >>

(***************************************************************************)
(* animate_selected (PostUpdate, after render_grid_objects); the frame     *)
(* ends with it.                                                           *)
(***************************************************************************)
\* The query is With<SelectedUnit>; finished are the entities whose timer has just
\* finished in this frame.
AnimateSelected(sel, finished, anim) ==
    [u \in AnimatedUnits |->
        IF u \in sel /\ u \in finished THEN advance(anim[u], FALSE) ELSE anim[u]]

animate_selected ==
    /\ stage = "Animate"
    /\ \E finished \in SUBSET AnimatedUnits :
          selected_animation' = AnimateSelected(selected, finished, selected_animation)
    /\ stage' = "Update"
    /\ UNCHANGED << pos, selected, hovered, clicked, bbox, last_click, highlights, depth,
                    commands, done, cursor, highest, start, dist_call >>

(***************************************************************************)
(* GridPosition::dist called on its own                                    *)
(***************************************************************************)
GridPositions == (0 .. MaxCoord) \X (0 .. MaxCoord)

NoDistCall == [self |-> << 0, 0 >>, p |-> << 0, 0 >>, returned |-> FALSE, result |-> 0]

call_dist ==
    /\ ~dist_call.returned
    /\ dist_call' = [dist_call EXCEPT !.returned = TRUE,
                                      !.result = dist(dist_call.self, dist_call.p)]
    /\ UNCHANGED << pos, selected, hovered, clicked, bbox, last_click, highlights, depth,
                    commands, stage, done, cursor, highest, start, selected_animation >>

(***************************************************************************)
(* The specification                                                       *)
(***************************************************************************)
NoHighlights == [k \in Kinds |-> [c \in Cells |-> 0]]

Init ==
    /\ pos = [u \in Units |-> InitialUnitPos(u)]
    /\ selected = {}
    /\ hovered = [e \in Entities |-> FALSE]
    /\ clicked = [e \in Entities |-> FALSE]
    /\ bbox = [e \in Entities |-> DefaultRect]
    /\ last_click = FALSE
    /\ highlights = NoHighlights
    /\ depth = [e \in Entities |-> 0]
    /\ commands = NoCommands
    /\ stage = "Update"
    /\ done = {}
    /\ cursor = Unread
    /\ highest = NoEntity
    /\ start = FrameStart({}, [u \in Units |-> InitialUnitPos(u)], NoHighlights)
    /\ selected_animation = InitialSelectedAnimation
    /\ dist_call = [NoDistCall EXCEPT !.returned = TRUE]

Next ==
    \/ handle_mouse_interactions
    \/ handle_grid_clicks
    \/ handle_unit_selection
    \/ handle_player_unit_selection_grid_highlights
    \/ handle_player_unit_selection_movement_highlights
    \/ handle_hover_grid_highlights
    \/ apply_buffers
    \/ render_grid_objects
    \/ animate_selected

Spec == Init /\ [][Next]_vars

\* GridPosition::dist applied to every pair of positions of a (MaxCoord + 1)-square.
InitDist ==
    /\ pos = [u \in Units |-> InitialUnitPos(u)]
    /\ selected = {}
    /\ hovered = [e \in Entities |-> FALSE]
    /\ clicked = [e \in Entities |-> FALSE]
    /\ bbox = [e \in Entities |-> DefaultRect]
    /\ last_click = FALSE
    /\ highlights = NoHighlights
    /\ depth = [e \in Entities |-> 0]
    /\ commands = NoCommands
    /\ stage = "Update"
    /\ done = {}
    /\ cursor = Unread
    /\ highest = NoEntity
    /\ start = FrameStart({}, [u \in Units |-> InitialUnitPos(u)], NoHighlights)
    /\ selected_animation = InitialSelectedAnimation
    /\ \E a \in GridPositions, b \in GridPositions :
          dist_call = [NoDistCall EXCEPT !.self = a, !.p = b]

NextDist == call_dist

SpecDist == InitDist /\ [][NextDist]_vars


(***************************************************************************)
(* Properties                                                              *)
(***************************************************************************)
\* The Update stage is over and its commands are applied: the end of the frame, with
\* what the frame read and how it began still at hand.
FrameEnd == stage = "PostUpdate"

FrameBoundary == stage = "Update" /\ done = {}

HitTested == "handle_mouse_interactions" \in done

\* The interactible entities whose bounding box contains the cursor of this frame.
Candidates == {e \in Entities : contains_point(bbox[e], cursor.p)}

ClickedEntities == {e \in Entities : clicked[e]}

Marked(kind) == {c \in Cells : highlights[kind][c] > 0}

MarkedAtStart(kind) == {c \in Cells : start.highlights[kind][c] > 0}

\* C1: after any sequence of frames at most one entity carries the SelectedUnit
\* marker (in every reachable state, so at every frame boundary).
C1_SelectionSingleOwnership == Cardinality(selected) <= 1

\* C1 witness: the selection has passed from one unit to another in a frame.
C1_Witness ==
    /\ FrameEnd
    /\ \E u \in Units, v \in Units : u # v /\ start.selected = {v} /\ selected = {u}

\* C2: in a frame with the cursor present, a left-click edge and at least one
\* entity whose box contains the cursor, after the hit test exactly one entity has
\* clicked = TRUE, and it has the maximum z among the entities under the cursor.
C2_HitTestExclusivity ==
    (HitTested /\ cursor.present /\ cursor.click /\ Candidates # {}) =>
        \E e \in Candidates :
            /\ ClickedEntities = {e}
            /\ \A o \in Candidates : ZOf(o) <= ZOf(e)

\* C3: if the hit test of a frame marks a selectable entity u as the clicked
\* winner and u was not selected when the frame began, then at the end of the frame
\* u is the only entity carrying the SelectedUnit marker.
C3_ClickSelects ==
    (FrameEnd /\ highest \in Units /\ highest \notin start.selected) =>
        selected = {highest}

\* C3 witness: a unit was clicked while another unit was selected.
C3_Witness ==
    /\ FrameEnd
    /\ highest \in Units
    /\ start.selected # {}
    /\ highest \notin start.selected

\* C4: if unit u was selected when the frame began and the hit test of the frame
\* marks as clicked a tile whose cell carries a PlayerUnitMovement highlight, then at
\* the end of the frame u stands on that tile's cell and is no longer selected.
C4_MoveOnRangeClick ==
    \A u \in Units :
        (/\ FrameEnd
         /\ start.selected = {u}
         /\ highest \in Tiles
         /\ TilePos(highest) \in MarkedAtStart("PlayerUnitMovement"))
        => (pos[u] = TilePos(highest) /\ u \notin selected)

\* C5: if unit u was selected when the frame began and the hit test of the frame
\* marks as clicked a tile whose cell carries no PlayerUnitMovement highlight, then at
\* the end of the frame u is no longer selected and has not moved.
C5_DeselectOnOtherClick ==
    \A u \in Units :
        (/\ FrameEnd
         /\ start.selected = {u}
         /\ highest \in Tiles
         /\ TilePos(highest) \notin MarkedAtStart("PlayerUnitMovement"))
        => (u \notin selected /\ pos[u] = start.pos[u])

\* C6: at the end of every frame in which LastClick.was_handled is false when
\* handle_unit_selection runs (nothing writes it later in the frame), no entity
\* carries the SelectedUnit marker.
C6_UnhandledClickClears == (FrameEnd /\ ~last_click) => selected = {}

\* C6 witness: a frame that began with a selected unit ends with the last click
\* unhandled.
C6_Witness == FrameEnd /\ ~last_click /\ start.selected # {}

\* C7: when a unit with MovementRange r was the selected unit at position p while
\* the movement-range pass ran, then after the commands are applied the cells that
\* carry a PlayerUnitMovement highlight are exactly the cells at distance 1 .. r of p.
C7_MovementRangeExact ==
    \A u \in Units :
        (FrameEnd /\ start.selected = {u} /\ HasMovementRange(u)) =>
            Marked("PlayerUnitMovement") = TilesNeedHighlight(pos[u], MovementRangeOf(u))

\* C8: when the selected entity carries no MovementRange while the movement-range
\* pass runs, no PlayerUnitMovement highlight exists after its commands are applied.
C8_NoRangeNoHighlights ==
    \A u \in Units :
        (FrameEnd /\ start.selected = {u} /\ ~HasMovementRange(u)) =>
            Marked("PlayerUnitMovement") = {}

\* C9: at the end of a frame that began with no entity selected, no
\* PlayerUnitMovement and no PlayerUnitSelected highlight exists.
C9_NoSelectionNoHighlights ==
    (FrameEnd /\ start.selected = {}) =>
        (Marked("PlayerUnitMovement") = {} /\ Marked("PlayerUnitSelected") = {})

\* C9 witness: a frame began with nothing selected but with highlights of both kinds
\* left from the frame before.
C9_Witness ==
    /\ FrameEnd
    /\ start.selected = {}
    /\ MarkedAtStart("PlayerUnitMovement") # {}
    /\ MarkedAtStart("PlayerUnitSelected") # {}

SelectedTileCount ==
    Cardinality({c \in Cells : highlights["PlayerUnitSelected"][c] = 1})
    + 2 * Cardinality({c \in Cells : highlights["PlayerUnitSelected"][c] > 1})

\* C10 as stated: at every frame boundary at most one PlayerUnitSelected highlight
\* exists, and whenever one exists while a unit is selected it is on that unit's cell.
C10_SelectedTileFollowsSelection ==
    FrameBoundary =>
        /\ SelectedTileCount <= 1
        /\ \A u \in selected : \A c \in Marked("PlayerUnitSelected") : c = pos[u]

\* C10 as amended: at most one PlayerUnitSelected highlight exists, and at the end of
\* a frame one exists only if the frame began with a selected unit, on the cell that
\* unit stands on at the end of the frame.
C10_SelectedTileFollowsStartSelection ==
    /\ SelectedTileCount <= 1
    /\ FrameEnd =>
          \A c \in Marked("PlayerUnitSelected") :
              \E u \in Units : start.selected = {u} /\ c = pos[u]

\* C10 witness: a frame in which the selected unit moved ends with the highlight on
\* its new cell.
C10_Witness ==
    /\ FrameEnd
    /\ \E u \in Units :
          /\ start.selected = {u}
          /\ pos[u] # start.pos[u]
          /\ Marked("PlayerUnitSelected") = {pos[u]}

\* C11: in every reachable state, for each highlight kind and each grid cell, at most
\* one highlight of that kind exists at that cell.
C11_OneHighlightPerKindAndCell ==
    \A k \in Kinds : \A c \in Cells : highlights[k][c] <= 1

\* C11 witness: a frame whose passes each needed a highlight that already existed, and
\* each kind still has exactly that one there.
C11_Witness ==
    /\ FrameEnd
    /\ \A k \in Kinds :
          \E c \in Cells : start.highlights[k][c] = 1 /\ highlights[k][c] = 1

\* C12: each of the three highlight passes is idempotent: once the commands of a
\* frame are applied, the pass run again on the same hovered flags, the same selected
\* unit (the one the pass saw) and the same unit positions issues no spawn and no
\* despawn.
C12_ReconcileIdempotent ==
    FrameEnd =>
        /\ HoverHighlightCommands(hovered, highlights) = << >>
        /\ SelectionHighlightCommands(start.selected, pos, highlights) = << >>
        /\ MovementHighlightCommands(start.selected, pos, highlights) = << >>

\* C12 witness: a frame in which each of the three passes changed its highlights.
C12_Witness ==
    /\ FrameEnd
    /\ \A k \in Kinds : start.highlights[k] # highlights[k]

\* C13: at the end of every frame the cells carrying a PlayerHover highlight are
\* exactly the positions of the tiles whose hovered flag is true after the frame's hit
\* test, whether a unit is selected or not; so a tile that is no longer hovered has
\* lost its highlight in the same frame.
C13_HoverHighlightsFollowFlags ==
    FrameEnd =>
        {c \in Cells : highlights["PlayerHover"][c] > 0}
            = {TilePos(t) : t \in {o \in Tiles : hovered[o]}}

\* C13 witness: with a unit selected, a frame took the hover highlight from one cell
\* while another cell carries one.
C13_Witness ==
    /\ FrameEnd
    /\ start.selected # {}
    /\ \E c \in Cells, d \in Cells :
          /\ start.highlights["PlayerHover"][c] > 0
          /\ highlights["PlayerHover"][c] = 0
          /\ highlights["PlayerHover"][d] > 0

\* C14: render_grid_objects gives every positioned entity the depth 10 if it is a
\* unit, else 9 if its cell carries a PlayerUnitSelected highlight, else 5 if its cell
\* carries a PlayerUnitMovement highlight, else 1; so a tile whose cell carries only a
\* PlayerHover highlight gets 1.
C14_RenderDepth ==
    stage = "Animate" =>
        \A e \in Entities :
            depth[e] = IF e \in Units THEN 10
                       ELSE IF highlights["PlayerUnitSelected"][TilePos(e)] > 0 THEN 9
                       ELSE IF highlights["PlayerUnitMovement"][TilePos(e)] > 0 THEN 5
                       ELSE 1

\* C15: the hovered and clicked flags after the hit test of a frame do not depend on
\* the flags before it: they equal the flags of the run that enters the frame with the
\* same bounding boxes and the same input but with every flag false.
C15_FlagsMemoryless ==
    HitTested =>
        /\ hovered = HoveredAfter(cursor, bbox, [e \in Entities |-> FALSE])
        /\ clicked = ClickedAfter(cursor, bbox, [e \in Entities |-> FALSE])

\* C16: once handle_unit_selection has run in a frame in which the clicked flag of a
\* unit with a SelectedAnimation made it the unit selected, the current_index of the
\* animation stored on that unit equals its start_index.
C16_SelectionResetsAnimation ==
    "handle_unit_selection" \in done =>
        \A u \in AnimatedUnits :
            FirstWhere(Units, clicked) = u =>
                selected_animation[u].current_index = selected_animation[u].start_index

\* C17: in a frame with the cursor present and no click edge, after the hit test an
\* entity is hovered exactly when the cursor lies strictly inside its bounding box
\* (left < x < right and bottom < y < top), and no entity is clicked.
C17_HoverStrictlyInside ==
    (HitTested /\ cursor.present /\ ~cursor.click) =>
        \A e \in Entities :
            /\ hovered[e] <=> (/\ bbox[e].left < cursor.p[1]
                               /\ cursor.p[1] < bbox[e].right
                               /\ bbox[e].bottom < cursor.p[2]
                               /\ cursor.p[2] < bbox[e].top)
            /\ ~clicked[e]

\* C17 witness: the cursor, without a click, is on the right edge of one entity's box
\* and strictly inside the box of another; only the other is hovered.
C17_Witness ==
    /\ HitTested
    /\ cursor.present
    /\ ~cursor.click
    /\ \E e \in Entities, o \in Entities :
          /\ cursor.p[1] = bbox[e].right
          /\ bbox[e].bottom < cursor.p[2]
          /\ cursor.p[2] < bbox[e].top
          /\ ~hovered[e]
          /\ hovered[o]

\* C18: GridPosition::dist is the Manhattan distance: for positions a and b it
\* returns |ax - bx| + |ay - by|, the same as for b and a, 0 for a = b, and 7 for
\* (0, 0) and (3, 4).
C18_DistIsManhattan ==
    dist_call.returned =>
        LET a == dist_call.self
            b == dist_call.p
            dx == IF a[1] >= b[1] THEN a[1] - b[1] ELSE b[1] - a[1]
            dy == IF a[2] >= b[2] THEN a[2] - b[2] ELSE b[2] - a[2]
        IN  /\ dist_call.result = dx + dy
            /\ dist_call.result = dist(b, a)
            /\ a = b => dist_call.result = 0
            /\ (a = << 0, 0 >> /\ b = << 3, 4 >>) => dist_call.result = 7

\* C18 witness: dist has returned for (0, 0) and (3, 4).
C18_Witness ==
    /\ dist_call.returned
    /\ dist_call.self = << 0, 0 >>
    /\ dist_call.p = << 3, 4 >>

\* C19: after the hit test of a frame with the cursor present and a click edge, no
\* entity is hovered and no entity other than the winner is clicked.
C19_ClickFrameClearsOthers ==
    (HitTested /\ cursor.present /\ cursor.click) =>
        \A e \in Entities : ~hovered[e] /\ (e # highest => ~clicked[e])

\* C20: a unit whose position at the end of a frame differs from its position at the
\* start of the frame has a MovementRange, and its new position is a grid cell at a
\* distance of 1 .. range from the old one.
C20_MoveWithinOwnRange ==
    FrameEnd =>
        \A u \in Units :
            pos[u] # start.pos[u] =>
                /\ HasMovementRange(u)
                /\ pos[u] \in Cells
                /\ dist(start.pos[u], pos[u]) > 0
                /\ dist(start.pos[u], pos[u]) <= MovementRangeOf(u)

\* C21: in every frame, under every order the schedule allows, the hit test has run
\* before handle_grid_clicks and before handle_unit_selection run.
C21_HitTestFirst ==
    \A s \in {"handle_grid_clicks", "handle_unit_selection"} :
        s \in done => "handle_mouse_interactions" \in done

\* C22: the hit test of a frame with the cursor present writes LastClick.was_handled
\* only on a click edge, and then to true exactly when the cursor lies inside the
\* bounding box of at least one entity; without a click edge the value is kept.
C22_WasHandledOnClickOnly ==
    [][(~HitTested /\ HitTested' /\ cursor'.present) =>
          IF cursor'.click
          THEN last_click' <=> \E e \in Entities :
                                   /\ bbox[e].left < cursor'.p[1]
                                   /\ cursor'.p[1] < bbox[e].right
                                   /\ bbox[e].bottom < cursor'.p[2]
                                   /\ cursor'.p[2] < bbox[e].top
          ELSE last_click' = last_click]_vars

\* C22 witness: a click outside every box, in a frame that began with a selected unit
\* (so an earlier click was handled), has left was_handled false.
C22_Witness ==
    /\ HitTested
    /\ cursor.present
    /\ cursor.click
    /\ Candidates = {}
    /\ ~last_click
    /\ start.selected # {}

\* C23: in every reachable state, if some entity has clicked = TRUE then
\* LastClick.was_handled is TRUE.
C23_ClickedImpliesHandled == (\E e \in Entities : clicked[e]) => last_click

\* C23 witness: a frame without a cursor, after its hit test, with a clicked flag
\* left from an earlier frame.
C23_Witness ==
    /\ HitTested
    /\ ~cursor.present
    /\ \E e \in Entities : clicked[e]

\* C24: if unit u was selected when the frame began and the hit test of the frame
\* marks u as the clicked winner, then at the end of the frame u is not selected and
\* stands where it stood when the frame began.
C24_ReclickTogglesOff ==
    \A u \in Units :
        (FrameEnd /\ start.selected = {u} /\ highest = u) =>
            (u \notin selected /\ pos[u] = start.pos[u])

=============================================================================
